---- MODULE Spec2Model ----
(***************************************************************************)
(* A model of the notebook 02_polviews.ipynb: the cells that derive the    *)
(* frequency distributions, the mean-by-year series, the cross tabulation  *)
(* and the smoothed series from the loaded table gss, run top to bottom.   *)
(*                                                                         *)
(* Values.  A cell of the table is a dynamically typed value: Num(k) for   *)
(* a number, Str(s) for a string, NaN for a missing response.  A float     *)
(* computed by a division is an exact fraction <<n, d>> in lowest terms,   *)
(* FNaN is the float nan.  A pandas Series is a sequence of                *)
(* <<index, value>> pairs in the order pandas keeps them.                  *)
(***************************************************************************)
EXTENDS Integers, Sequences, FiniteSets, TLC

(* ---------------------------- bounds ----------------------------------- *)
\* most rows of the loaded table beyond a block of seven
MaxRows == 2
\* the responses that occur in the table are the codes 1..MaxCode
MaxCode == 3
\* most points of a series handed to make_lowess directly
MaxPts == 3
\* most categories of a list handed to plot_columns_lowess directly
MaxCols == 2
\* most rows beyond the block of the table such a call works on
MaxExtra == 1

VARIABLES
    gss,           \* the loaded table: a sequence of rows [year, polviews]
    polviews,      \* cell 6
    year74,        \* cell 7
    polviews74,    \* cell 8
    polviews18,    \* cell 11
    out,           \* the value the last cell displayed
    pmf74,         \* cell 13
    pmf18,         \* cell 14
    gss_by_year,   \* cell 19
    mean_series,   \* cells 22 and 27
    xtab,          \* cell 29
    xtab_norm,     \* cells 31 and 36
    polviews7,     \* cell 34
    palette,       \* cells 37 and 39
    purple,        \* cell 38
    color_map,     \* cell 41
    figure,        \* what the last plotting cell drew, in drawing order
    pc,            \* the execution count of the next cell to run
    err,           \* the exception that stopped the run, "none" while it runs
    small_n,       \* what lowess does with fewer than 2 distinct x values
    arg,           \* the arguments of a direct call of a function
    ret            \* the result of that call

vars == <<gss, polviews, year74, polviews74, polviews18, out, pmf74, pmf18,
          gss_by_year, mean_series, xtab, xtab_norm, polviews7, palette,
          purple, color_map, figure, pc, err, small_n, arg, ret>>

(* ---------------------------- values ----------------------------------- *)
Num(k) == [int |-> k]
Str(s) == [str |-> s]
NaN == [nan |-> TRUE]
IsInt(v) == "int" \in DOMAIN v
IsStr(v) == "str" \in DOMAIN v
isna(v) == v = NaN

\* the survey years a row can carry: the two years the notebook selects
Years == {1974, 2018}
\* the responses a row can carry: a code of the scale or a missing response
Responses == {Num(k) : k \in 1..MaxCode} \cup {NaN}
Rows == [year : {Num(y) : y \in Years}, polviews : Responses]

RECURSIVE Gcd(_, _)
Gcd(a, b) == IF b = 0 THEN a ELSE Gcd(b, a % b)

FNaN == <<0, 0>>
\* n / d on floats, kept exact; 0 / 0 is nan
Div(n, d) == IF d = 0 THEN FNaN ELSE <<n \div Gcd(n, d), d \div Gcd(n, d)>>
isfinite(f) == f[2] # 0
FAdd(a, b) == IF isfinite(a) /\ isfinite(b)
              THEN Div(a[1] * b[2] + b[1] * a[2], a[2] * b[2])
              ELSE FNaN
Zero == <<0, 1>>
One == <<1, 1>>

(* ----------------------- sequences and Series -------------------------- *)
Range(s) == {s[i] : i \in 1..Len(s)}
Index(s) == [i \in 1..Len(s) |-> s[i][1]]
Data(s) == [i \in 1..Len(s) |-> s[i][2]]
Keys(s) == {s[i][1] : i \in 1..Len(s)}
Has(s, k) == \E i \in 1..Len(s) : s[i][1] = k
\* series[k] for a key that occurs once
Get(s, k) == s[CHOOSE i \in 1..Len(s) : s[i][1] = k][2]
Count(s, v) == Cardinality({i \in 1..Len(s) : s[i] = v})

\* the code-point order of the strings the notebook sorts (the labels of d7)
StrOrder == << "Conservative", "Extremely conservative", "Extremely liberal",
               "Liberal", "Moderate", "Slightly conservative",
               "Slightly liberal" >>
StrRank(s) == CHOOSE i \in 1..Len(StrOrder) : StrOrder[i] = s
\* a < b on two index values of one type
KeyLess(a, b) == IF IsInt(a) THEN a.int < b.int
                 ELSE StrRank(a.str) < StrRank(b.str)

\* the distinct values of a sequence in the order of their first occurrence
RECURSIVE Unique(_)
Unique(s) == IF s = <<>> THEN <<>>
             ELSE LET init == Unique(SubSeq(s, 1, Len(s) - 1))
                      last == s[Len(s)]
                  IN IF last \in Range(init) THEN init ELSE Append(init, last)

\* s in the order Before, equal elements in the order they have in s
SortBy(s, Before(_, _)) ==
    LET pos(i) == 1 + Cardinality({j \in 1..Len(s) :
                        \/ Before(s[j], s[i])
                        \/ ~Before(s[i], s[j]) /\ j < i})
    IN [k \in 1..Len(s) |-> s[CHOOSE i \in 1..Len(s) : pos(i) = k]]

\* Series.sort_index(): ascending by index value
sort_index(s) == LET Before(p, q) == KeyLess(p[1], q[1]) IN SortBy(s, Before)

\* the values of a column without the missing ones
dropna(seq) == LET Keep(v) == ~isna(v) IN SelectSeq(seq, Keep)

RECURSIVE SumSeq(_)
SumSeq(s) == IF s = <<>> THEN 0 ELSE Head(s) + SumSeq(Tail(s))
RECURSIVE FSum(_)
FSum(s) == IF s = <<>> THEN Zero ELSE FAdd(Head(s), FSum(Tail(s)))

\* Series.value_counts(sort=False): one entry per distinct non-missing value
value_counts_unsorted(series) ==
    LET u == Unique(dropna(Data(series)))
    IN [i \in 1..Len(u) |-> <<u[i], Count(Data(series), u[i])>>]

\* Series.value_counts(): the same entries, most frequent first
value_counts(series) ==
    LET Before(p, q) == p[2] > q[2]
    IN SortBy(value_counts_unsorted(series), Before)

\* values without the sort: the order of value_counts, most frequent first
values_by_count(series) == value_counts(series)

\* values(series) of the notebook
values(series) == sort_index(value_counts(series))

\* Pmf.normalize(): every count divided by the sum of the counts
normalize(counts) ==
    LET total == SumSeq(Data(counts))
    IN [i \in 1..Len(counts) |-> <<counts[i][1], Div(counts[i][2], total)>>]

\* from_seq dividing by the length of the input, missing entries included
Pmf_from_seq_len(seq) ==
    LET counts == sort_index(value_counts_unsorted(seq))
    IN [i \in 1..Len(counts) |-> <<counts[i][1], Div(counts[i][2], Len(seq))>>]

\* from_seq with dropna=False: the missing entries are a value of their own
Pmf_from_seq_keepna(seq) ==
    LET missing == Len(seq) - Len(dropna(Data(seq)))
        counts == sort_index(value_counts_unsorted(seq)) \o
                  (IF missing > 0 THEN << <<NaN, missing>> >> ELSE <<>>)
    IN normalize(counts)

\* Pmf.from_seq(seq): count, sort by value, normalize
Pmf_from_seq(seq) == normalize(sort_index(value_counts_unsorted(seq)))

\* series[mask]: the entries whose row the Boolean series marks
select(series, mask) ==
    LET Keep(p) == Get(mask, p[1]) IN SelectSeq(series, Keep)

\* the column of a table as a Series indexed by the row labels
col_of(table, name) ==
    [i \in 1..Len(table) |->
        <<Num(i - 1), IF name = "year" THEN table[i].year ELSE table[i].polviews>>]

\* series == v
eq(series, v) == [i \in 1..Len(series) |-> <<series[i][1], series[i][2] = v>>]

\* the sorted distinct non-missing values of a sequence
sorted_keys(seq) ==
    LET u == Unique(dropna(seq)) IN SortBy(u, KeyLess)

\* groupby with sort=False: the years in the order of their first row
groupby_year_unsorted(table) ==
    LET yr == col_of(table, "year")
        ks == Unique(dropna(Data(yr)))
        InGroup(k) == LET Keep(p) == p[2] = k IN Index(SelectSeq(yr, Keep))
    IN [i \in 1..Len(ks) |-> <<ks[i], InGroup(ks[i])>>]

\* DataFrame.groupby('year'): the row labels of every year, years ascending
groupby_year(table) ==
    LET yr == col_of(table, "year")
        ks == sorted_keys(Data(yr))
        InGroup(k) == LET Keep(p) == p[2] = k IN Index(SelectSeq(yr, Keep))
    IN [i \in 1..Len(ks) |-> <<ks[i], InGroup(ks[i])>>]

\* a mean whose divisor counts the missing values too
mean_of_all(vals) ==
    LET present == dropna(vals)
        nums == [i \in 1..Len(present) |-> present[i].int]
    IN Div(SumSeq(nums), Len(vals))

\* Series.mean(): the mean of the non-missing values, nan when there is none
mean(vals) ==
    LET present == dropna(vals)
        nums == [i \in 1..Len(present) |-> present[i].int]
    IN Div(SumSeq(nums), Len(nums))

\* groups[name].mean() followed by dropna(): no entry for a group whose
\* values are all missing
groupby_mean_dropna(groups, table, name) ==
    LET column == col_of(table, name)
        vals(labels) == [j \in 1..Len(labels) |-> Get(column, labels[j])]
        kept == SelectSeq(groups, LAMBDA g : dropna(vals(g[2])) # <<>>)
    IN [i \in 1..Len(kept) |-> <<kept[i][1], mean(vals(kept[i][2]))>>]

\* groups[name].mean(): one entry per group, in the order of the groups
groupby_mean(groups, table, name) ==
    LET column == col_of(table, name)
        vals(labels) == [j \in 1..Len(labels) |-> Get(column, labels[j])]
    IN [i \in 1..Len(groups) |-> <<groups[i][1], mean(vals(groups[i][2]))>>]

\* crosstab that keeps rows and columns in the order of first appearance
crosstab_appearance(index, column, norm) ==
    LET both == {i \in 1..Len(index) : ~isna(index[i][2]) /\ ~isna(column[i][2])}
        Keep(p) == \E i \in both : index[i][1] = p[1]
        rs == Unique(Data(SelectSeq(index, Keep)))
        cs == Unique(Data(SelectSeq(column, Keep)))
        n(r, c) == Cardinality({i \in both : index[i][2] = r /\ column[i][2] = c})
        rowsum(r) == Cardinality({i \in both : index[i][2] = r})
    IN [index |-> rs,
        columns |-> cs,
        data |-> [i \in 1..Len(rs) |-> [j \in 1..Len(cs) |->
                    IF norm THEN Div(n(rs[i], cs[j]), rowsum(rs[i]))
                    ELSE n(rs[i], cs[j])]]]

\* crosstab with normalize='all': a cell is divided by the grand total
crosstab_all(index, column, norm) ==
    LET both == {i \in 1..Len(index) : ~isna(index[i][2]) /\ ~isna(column[i][2])}
        Keep(p) == \E i \in both : index[i][1] = p[1]
        rs == sorted_keys(Data(SelectSeq(index, Keep)))
        cs == sorted_keys(Data(SelectSeq(column, Keep)))
        n(r, c) == Cardinality({i \in both : index[i][2] = r /\ column[i][2] = c})
    IN [index |-> rs,
        columns |-> cs,
        data |-> [i \in 1..Len(rs) |-> [j \in 1..Len(cs) |->
                    IF norm THEN Div(n(rs[i], cs[j]), Cardinality(both))
                    ELSE n(rs[i], cs[j])]]]

\* crosstab that fills no empty cell and keeps the complete columns only
crosstab_nofill(index, column, norm) ==
    LET both == {i \in 1..Len(index) : ~isna(index[i][2]) /\ ~isna(column[i][2])}
        Keep(p) == \E i \in both : index[i][1] = p[1]
        rs == sorted_keys(Data(SelectSeq(index, Keep)))
        n(r, c) == Cardinality({i \in both : index[i][2] = r /\ column[i][2] = c})
        rowsum(r) == Cardinality({i \in both : index[i][2] = r})
        Complete(c) == \A i \in 1..Len(rs) : n(rs[i], c) > 0
        cs == SelectSeq(sorted_keys(Data(SelectSeq(column, Keep))), Complete)
    IN [index |-> rs,
        columns |-> cs,
        data |-> [i \in 1..Len(rs) |-> [j \in 1..Len(cs) |->
                    IF norm THEN Div(n(rs[i], cs[j]), rowsum(rs[i]))
                    ELSE n(rs[i], cs[j])]]]

\* pd.crosstab(index, column[, normalize='index']): a frame with a row per
\* value of index and a column per value of column, over the rows of the
\* data where neither is missing; a cell counts the rows, and with
\* normalize it is the count divided by the sum of its row
crosstab(index, column, norm) ==
    LET both == {i \in 1..Len(index) : ~isna(index[i][2]) /\ ~isna(column[i][2])}
        Keep(p) == \E i \in both : index[i][1] = p[1]
        rs == sorted_keys(Data(SelectSeq(index, Keep)))
        cs == sorted_keys(Data(SelectSeq(column, Keep)))
        n(r, c) == Cardinality({i \in both : index[i][2] = r /\ column[i][2] = c})
        rowsum(r) == Cardinality({i \in both : index[i][2] = r})
    IN [index |-> rs,
        columns |-> cs,
        data |-> [i \in 1..Len(rs) |-> [j \in 1..Len(cs) |->
                    IF norm THEN Div(n(rs[i], cs[j]), rowsum(rs[i]))
                    ELSE n(rs[i], cs[j])]]]

\* the result of a call: a value, or the exception the call raised
Ok(v) == [err |-> "none", val |-> v]
Raise(e) == [err |-> e, val |-> <<>>]

\* table[col]: the column as a Series over the rows, KeyError without it
getitem(table, col) ==
    IF col \in Range(table.columns)
    THEN LET j == CHOOSE j \in 1..Len(table.columns) : table.columns[j] = col
         IN Ok([i \in 1..Len(table.index) |-> <<table.index[i], table.data[i][j]>>])
    ELSE Raise("KeyError")

\* Series.replace(d): a value that is a key of d becomes d's entry for it
replace(series, d) ==
    [i \in 1..Len(series) |->
        <<series[i][1],
          IF series[i][2] \in DOMAIN d THEN d[series[i][2]] ELSE series[i][2]>>]

(* ------------------------------ lowess --------------------------------- *)
\* the estimate lowess fits at the i-th of the sorted points; the regression
\* itself is not computed, the estimate is a term over the points
Fitted(pts, i) == [lowess |-> pts, at |-> i]

\* lowess that takes its input as sorted (is_sorted=True)
lowess_is_sorted(endog, exog) ==
    LET all == [i \in 1..Len(exog) |-> <<exog[i], endog[i]>>]
        Valid(p) == ~isna(p[1]) /\ isfinite(p[2])
        pts == SelectSeq(all, Valid)
    IN IF Cardinality(Keys(pts)) < 2 /\ small_n = "raises"
       THEN Raise("ValueError")
       ELSE Ok([i \in 1..Len(pts) |-> <<pts[i][1], Fitted(pts, i)>>])

\* lowess that cuts no point out (missing='none')
lowess_keepna(endog, exog) ==
    LET all == [i \in 1..Len(exog) |-> <<exog[i], endog[i]>>]
        Before(p, q) == KeyLess(p[1], q[1])
        pts == SortBy(all, Before)
    IN IF Cardinality(Keys(pts)) < 2 /\ small_n = "raises"
       THEN Raise("ValueError")
       ELSE Ok([i \in 1..Len(pts) |-> <<pts[i][1], Fitted(pts, i)>>])

\* lowess(endog, exog) with its defaults missing='drop', return_sorted=True:
\* the points with a missing x or y are cut out, the rest is sorted by x,
\* and the result has one row <<x, estimate>> per remaining point.  With
\* fewer than 2 distinct x values the library either returns such rows or
\* raises its own error, as small_n says.
lowess(endog, exog) ==
    LET all == [i \in 1..Len(exog) |-> <<exog[i], endog[i]>>]
        Valid(p) == ~isna(p[1]) /\ isfinite(p[2])
        Before(p, q) == KeyLess(p[1], q[1])
        pts == SortBy(SelectSeq(all, Valid), Before)
    IN IF Cardinality(Keys(pts)) < 2 /\ small_n = "raises"
       THEN Raise("ValueError")
       ELSE Ok([i \in 1..Len(pts) |-> <<pts[i][1], Fitted(pts, i)>>])

\* np.transpose of an array of rows <<x, y>>: the row of xs, the row of ys
transpose(rows) == <<[i \in 1..Len(rows) |-> rows[i][1]],
                     [i \in 1..Len(rows) |-> rows[i][2]]>>

\* pd.Series(data, index=index)
Series(data, index) == [i \in 1..Len(data) |-> <<index[i], data[i]>>]

\* make_lowess with a check of the number of distinct x values
make_lowess_checked(series) ==
    LET y == Data(series)
        x == Index(series)
        smooth == lowess(y, x)
    IN IF Cardinality(Range(x)) < 2 THEN Raise("InsufficientDataError")
       ELSE IF smooth.err # "none" THEN smooth
       ELSE LET t == transpose(smooth.val)
            IN Ok(Series(t[2], t[1]))

\* make_lowess(series)
make_lowess(series) ==
    LET y == Data(series)
        x == Index(series)
        smooth == lowess(y, x)
    IN IF smooth.err # "none" THEN smooth
       ELSE LET t == transpose(smooth.val)
            IN Ok(Series(t[2], t[1]))

(* ----------------------------- plotting -------------------------------- *)
Points(series, color) == [series |-> series, marker |-> "o", color |-> color]
Line(series, color) == [series |-> series, marker |-> "", color |-> color]

\* plot_series_lowess(series, color) on the figure fig: the points are
\* drawn, then the smooth line unless make_lowess raised
plot_series_lowess(fig, series, color) ==
    LET drawn == Append(fig, Points(series, color))
        smooth == make_lowess(series)
    IN IF smooth.err # "none"
       THEN [err |-> smooth.err, val |-> drawn]
       ELSE Ok(Append(drawn, Line(smooth.val, color)))

\* colors[col] of a dict
HasKey(d, k) == k \in DOMAIN d

\* plot_columns_lowess that draws a column without a color in a default
\* color (colors.get(col, 'C0'))
RECURSIVE plot_columns_lowess_default(_, _, _, _)
plot_columns_lowess_default(fig, table, cols, colors) ==
    IF cols = <<>> THEN Ok(fig)
    ELSE LET col == Head(cols)
             series == getitem(table, Str(col))
             color == IF HasKey(colors, col) THEN colors[col] ELSE "C0"
         IN IF series.err # "none" THEN [err |-> series.err, val |-> fig]
            ELSE LET r == plot_series_lowess(fig, series.val, color)
                 IN IF r.err # "none" THEN r
                    ELSE plot_columns_lowess_default(r.val, table, Tail(cols), colors)

\* plot_columns_lowess with a handler in the loop: a column that fails is
\* skipped and the loop goes on
RECURSIVE plot_columns_lowess_continue(_, _, _, _)
plot_columns_lowess_continue(fig, table, cols, colors) ==
    IF cols = <<>> THEN Ok(fig)
    ELSE LET col == Head(cols)
             series == getitem(table, Str(col))
         IN IF series.err # "none" \/ ~HasKey(colors, col)
            THEN plot_columns_lowess_continue(fig, table, Tail(cols), colors)
            ELSE LET r == plot_series_lowess(fig, series.val, colors[col])
                 IN plot_columns_lowess_continue(r.val, table, Tail(cols), colors)

\* plot_columns_lowess(table, columns, colors) on the figure fig: the loop
\* over columns, left by the first exception
RECURSIVE plot_columns_lowess(_, _, _, _)
plot_columns_lowess(fig, table, cols, colors) ==
    IF cols = <<>> THEN Ok(fig)
    ELSE LET col == Head(cols)
             series == getitem(table, Str(col))
         IN IF series.err # "none" THEN [err |-> series.err, val |-> fig]
            ELSE IF ~HasKey(colors, col) THEN [err |-> "KeyError", val |-> fig]
            ELSE LET r == plot_series_lowess(fig, series.val, colors[col])
                 IN IF r.err # "none" THEN r
                    ELSE plot_columns_lowess(r.val, table, Tail(cols), colors)

(* ------------------------- notebook constants -------------------------- *)
d7 == (Num(1) :> Str("Extremely liberal")) @@
      (Num(2) :> Str("Liberal")) @@
      (Num(3) :> Str("Slightly liberal")) @@
      (Num(4) :> Str("Moderate")) @@
      (Num(5) :> Str("Slightly conservative")) @@
      (Num(6) :> Str("Conservative")) @@
      (Num(7) :> Str("Extremely conservative"))

columns == << "Extremely liberal", "Liberal", "Slightly liberal", "Moderate",
              "Slightly conservative", "Conservative",
              "Extremely conservative" >>

columns2 == << "Extremely liberal", "Extremely conservative" >>

\* sns.color_palette(name, 7): seven colors, named by palette and position
color_palette(name) == [i \in 1..7 |-> <<name, i - 1>>]

\* dict(zip(keys, vals))
dict_zip(keys, vals) ==
    LET n == IF Len(keys) < Len(vals) THEN Len(keys) ELSE Len(vals)
    IN [k \in {keys[i] : i \in 1..n} |->
          vals[CHOOSE i \in 1..n : keys[i] = k /\ \A j \in (i + 1)..n : keys[j] # k]]

(* ------------------------------- state --------------------------------- *)
EmptyFrame == [index |-> <<>>, columns |-> <<>>, data |-> <<>>]
NoDict == [k \in {} |-> 0]
Pending == [err |-> "pending", val |-> <<>>]

Tables == UNION {[1..n -> Rows] : n \in 0..MaxRows}
\* seven respondents of one year, one for each code of the scale
Block(y) == [k \in 1..7 |-> [year |-> Num(y), polviews |-> Num(k)]]

Unset ==
    /\ polviews = <<>> /\ year74 = <<>> /\ polviews74 = <<>>
    /\ polviews18 = <<>> /\ out = <<>> /\ pmf74 = <<>> /\ pmf18 = <<>>
    /\ gss_by_year = <<>> /\ mean_series = <<>>
    /\ xtab = EmptyFrame /\ xtab_norm = EmptyFrame /\ polviews7 = <<>>
    /\ palette = <<>> /\ purple = <<>> /\ color_map = NoDict
    /\ figure = <<>> /\ err = "none"

\* the notebook after cell 5 has loaded a table: any table of at most
\* MaxRows rows, alone or after a block of 1974 or of 1990 in which every
\* code of the scale occurs
Init ==
    /\ gss \in {b \o t : b \in {<<>>, Block(1974), Block(1990)}, t \in Tables}
    /\ small_n \in {"returns", "raises"}
    /\ Unset
    /\ pc = 6
    /\ arg = <<>> /\ ret = Pending

Running(cell) == pc = cell /\ err = "none"

Cell6 ==
    /\ Running(6)
    /\ polviews' = col_of(gss, "polviews")
    /\ pc' = 7
    /\ UNCHANGED <<gss, year74, polviews74, polviews18, out, pmf74, pmf18,
                   gss_by_year, mean_series, xtab, xtab_norm, polviews7,
                   palette, purple, color_map, figure, err, small_n, arg, ret>>

Cell7 ==
    /\ Running(7)
    /\ year74' = eq(col_of(gss, "year"), Num(1974))
    /\ pc' = 8
    /\ UNCHANGED <<gss, polviews, polviews74, polviews18, out, pmf74, pmf18,
                   gss_by_year, mean_series, xtab, xtab_norm, polviews7,
                   palette, purple, color_map, figure, err, small_n, arg, ret>>

Cell8 ==
    /\ Running(8)
    /\ polviews74' = select(polviews, year74)
    /\ pc' = 10
    /\ UNCHANGED <<gss, polviews, year74, polviews18, out, pmf74, pmf18,
                   gss_by_year, mean_series, xtab, xtab_norm, polviews7,
                   palette, purple, color_map, figure, err, small_n, arg, ret>>

Cell10 ==
    /\ Running(10)
    /\ out' = values(polviews74)
    /\ pc' = 11
    /\ UNCHANGED <<gss, polviews, year74, polviews74, polviews18, pmf74, pmf18,
                   gss_by_year, mean_series, xtab, xtab_norm, polviews7,
                   palette, purple, color_map, figure, err, small_n, arg, ret>>

Cell11 ==
    /\ Running(11)
    /\ LET year18 == eq(col_of(gss, "year"), Num(2018))
       IN polviews18' = select(polviews, year18)
    /\ out' = values(polviews18')
    /\ pc' = 13
    /\ UNCHANGED <<gss, polviews, year74, polviews74, pmf74, pmf18,
                   gss_by_year, mean_series, xtab, xtab_norm, polviews7,
                   palette, purple, color_map, figure, err, small_n, arg, ret>>

Cell13 ==
    /\ Running(13)
    /\ pmf74' = Pmf_from_seq(polviews74)
    /\ pc' = 14
    /\ UNCHANGED <<gss, polviews, year74, polviews74, polviews18, out, pmf18,
                   gss_by_year, mean_series, xtab, xtab_norm, polviews7,
                   palette, purple, color_map, figure, err, small_n, arg, ret>>

Cell14 ==
    /\ Running(14)
    /\ pmf18' = Pmf_from_seq(polviews18)
    /\ pc' = 19
    /\ UNCHANGED <<gss, polviews, year74, polviews74, polviews18, out, pmf74,
                   gss_by_year, mean_series, xtab, xtab_norm, polviews7,
                   palette, purple, color_map, figure, err, small_n, arg, ret>>

Cell19 ==
    /\ Running(19)
    /\ gss_by_year' = groupby_year(gss)
    /\ pc' = 22
    /\ UNCHANGED <<gss, polviews, year74, polviews74, polviews18, out, pmf74,
                   pmf18, mean_series, xtab, xtab_norm, polviews7,
                   palette, purple, color_map, figure, err, small_n, arg, ret>>

\* cells 21 and 22: the column of the groups, and its mean
Cell22 ==
    /\ Running(22)
    /\ mean_series' = groupby_mean(gss_by_year, gss, "polviews")
    /\ pc' = 27
    /\ UNCHANGED <<gss, polviews, year74, polviews74, polviews18, out, pmf74,
                   pmf18, gss_by_year, xtab, xtab_norm, polviews7,
                   palette, purple, color_map, figure, err, small_n, arg, ret>>

Cell27 ==
    /\ Running(27)
    /\ mean_series' = groupby_mean(gss_by_year, gss, "polviews")
    /\ LET r == plot_series_lowess(<<>>, mean_series', "C2")
       IN /\ figure' = r.val
          /\ err' = r.err
          /\ pc' = IF r.err = "none" THEN 29 ELSE 27
    /\ UNCHANGED <<gss, polviews, year74, polviews74, polviews18, out, pmf74,
                   pmf18, gss_by_year, xtab, xtab_norm, polviews7,
                   palette, purple, color_map, small_n, arg, ret>>

\* year and column of cell 29
year == col_of(gss, "year")
column == col_of(gss, "polviews")

Cell29 ==
    /\ Running(29)
    /\ xtab' = crosstab(year, column, FALSE)
    /\ pc' = 31
    /\ UNCHANGED <<gss, polviews, year74, polviews74, polviews18, out, pmf74,
                   pmf18, gss_by_year, mean_series, xtab_norm, polviews7,
                   palette, purple, color_map, figure, err, small_n, arg, ret>>

Cell31 ==
    /\ Running(31)
    /\ xtab_norm' = crosstab(year, column, TRUE)
    /\ pc' = 34
    /\ UNCHANGED <<gss, polviews, year74, polviews74, polviews18, out, pmf74,
                   pmf18, gss_by_year, mean_series, xtab, polviews7,
                   palette, purple, color_map, figure, err, small_n, arg, ret>>

\* cell 34 with replace(d7, inplace=True): the column of the loaded table
\* itself is recoded
Cell34_inplace ==
    /\ Running(34)
    /\ polviews7' = replace(col_of(gss, "polviews"), d7)
    /\ gss' = [i \in 1..Len(gss) |->
                 [gss[i] EXCEPT !.polviews = polviews7'[i][2]]]
    /\ pc' = 35
    /\ UNCHANGED <<polviews, year74, polviews74, polviews18, out, pmf74,
                   pmf18, gss_by_year, mean_series, xtab, xtab_norm,
                   palette, purple, color_map, figure, err, small_n, arg, ret>>

Cell34 ==
    /\ Running(34)
    /\ polviews7' = replace(col_of(gss, "polviews"), d7)
    /\ pc' = 35
    /\ UNCHANGED <<gss, polviews, year74, polviews74, polviews18, out, pmf74,
                   pmf18, gss_by_year, mean_series, xtab, xtab_norm,
                   palette, purple, color_map, figure, err, small_n, arg, ret>>

Cell35 ==
    /\ Running(35)
    /\ out' = values(polviews7)
    /\ pc' = 36
    /\ UNCHANGED <<gss, polviews, year74, polviews74, polviews18, pmf74,
                   pmf18, gss_by_year, mean_series, xtab, xtab_norm, polviews7,
                   palette, purple, color_map, figure, err, small_n, arg, ret>>

Cell36 ==
    /\ Running(36)
    /\ xtab_norm' = crosstab(year, polviews7, TRUE)
    /\ pc' = 37
    /\ UNCHANGED <<gss, polviews, year74, polviews74, polviews18, out, pmf74,
                   pmf18, gss_by_year, mean_series, xtab, polviews7,
                   palette, purple, color_map, figure, err, small_n, arg, ret>>

Cell37 ==
    /\ Running(37)
    /\ palette' = color_palette("RdBu_r")
    /\ pc' = 38
    /\ UNCHANGED <<gss, polviews, year74, polviews74, polviews18, out, pmf74,
                   pmf18, gss_by_year, mean_series, xtab, xtab_norm, polviews7,
                   purple, color_map, figure, err, small_n, arg, ret>>

Cell38 ==
    /\ Running(38)
    /\ LET muted == color_palette("muted") IN purple' = muted[4 + 1]
    /\ pc' = 39
    /\ UNCHANGED <<gss, polviews, year74, polviews74, polviews18, out, pmf74,
                   pmf18, gss_by_year, mean_series, xtab, xtab_norm, polviews7,
                   palette, color_map, figure, err, small_n, arg, ret>>

\* cell 39 written as palette[4] = purple: the element after the midpoint
\* is replaced
Cell39_wrong_index ==
    /\ Running(39)
    /\ palette' = [palette EXCEPT ![4 + 1] = purple]
    /\ pc' = 41
    /\ UNCHANGED <<gss, polviews, year74, polviews74, polviews18, out, pmf74,
                   pmf18, gss_by_year, mean_series, xtab, xtab_norm, polviews7,
                   purple, color_map, figure, err, small_n, arg, ret>>

Cell39 ==
    /\ Running(39)
    /\ palette' = [palette EXCEPT ![3 + 1] = purple]
    /\ pc' = 41
    /\ UNCHANGED <<gss, polviews, year74, polviews74, polviews18, out, pmf74,
                   pmf18, gss_by_year, mean_series, xtab, xtab_norm, polviews7,
                   purple, color_map, figure, err, small_n, arg, ret>>

\* cells 40 and 41: the list columns, and the color map built from it
Cell41 ==
    /\ Running(41)
    /\ color_map' = dict_zip(columns, palette)
    /\ pc' = 44
    /\ UNCHANGED <<gss, polviews, year74, polviews74, polviews18, out, pmf74,
                   pmf18, gss_by_year, mean_series, xtab, xtab_norm, polviews7,
                   palette, purple, figure, err, small_n, arg, ret>>

Cell44 ==
    /\ Running(44)
    /\ LET r == plot_columns_lowess(<<>>, xtab_norm, columns, color_map)
       IN /\ figure' = r.val
          /\ err' = r.err
          /\ pc' = IF r.err = "none" THEN 45 ELSE 44
    /\ UNCHANGED <<gss, polviews, year74, polviews74, polviews18, out, pmf74,
                   pmf18, gss_by_year, mean_series, xtab, xtab_norm, polviews7,
                   palette, purple, color_map, small_n, arg, ret>>

Cell45 ==
    /\ Running(45)
    /\ LET r == plot_columns_lowess(<<>>, xtab_norm, columns2, color_map)
       IN /\ figure' = r.val
          /\ err' = r.err
          /\ pc' = IF r.err = "none" THEN 46 ELSE 45
    /\ UNCHANGED <<gss, polviews, year74, polviews74, polviews18, out, pmf74,
                   pmf18, gss_by_year, mean_series, xtab, xtab_norm, polviews7,
                   palette, purple, color_map, small_n, arg, ret>>

Next ==
    \/ Cell6 \/ Cell7 \/ Cell8 \/ Cell10 \/ Cell11 \/ Cell13 \/ Cell14
    \/ Cell19 \/ Cell22 \/ Cell27 \/ Cell29 \/ Cell31 \/ Cell34 \/ Cell35
    \/ Cell36 \/ Cell37 \/ Cell38 \/ Cell39 \/ Cell41 \/ Cell44 \/ Cell45

Spec == Init /\ [][Next]_vars

(* ------------------- make_lowess called on any series ------------------ *)
\* the x values and the y values of the points of such a series
XVals == {Num(2000), Num(2001), Num(2002)}
YVals == {Div(5, 1), Div(1, 2), FNaN}
SeriesArgs == UNION {[1..n -> XVals \X YVals] : n \in 0..MaxPts}

InitLowess ==
    /\ gss = <<>>
    /\ small_n \in {"returns", "raises"}
    /\ Unset
    /\ pc = 25
    /\ arg \in SeriesArgs
    /\ ret = Pending

CallMakeLowess ==
    /\ pc = 25
    /\ ret = Pending
    /\ ret' = make_lowess(arg)
    /\ UNCHANGED <<gss, polviews, year74, polviews74, polviews18, out, pmf74,
                   pmf18, gss_by_year, mean_series, xtab, xtab_norm, polviews7,
                   palette, purple, color_map, figure, pc, err, small_n, arg>>

NextLowess == CallMakeLowess

SpecLowess == InitLowess /\ [][NextLowess]_vars

(* ---- plot_columns_lowess called on any list, the palette cells rerun --- *)
\* the categories of such a list: two of the scale and one that is neither
\* a column of the matrix nor a key of color_map
ArgLabels == {"Extremely liberal", "Moderate", "Other party"}
ColumnArgs == {columns, columns2} \cup
              UNION {[1..n -> ArgLabels] : n \in 0..MaxCols}
\* the dict d without the keys outside ks
Restrict(d, ks) == [k \in DOMAIN d \cap ks |-> d[k]]
\* the color mappings of such a call: color_map, or its entries for columns2
ColorArgs == {color_map, Restrict(color_map, Range(columns2))}

\* the notebook after cell 5 has loaded a table in which every code occurs
InitPlot ==
    /\ gss \in {Block(1974) \o t : t \in {t \in Tables : Len(t) <= MaxExtra}}
    /\ small_n \in {"returns", "raises"}
    /\ Unset
    /\ pc = 6
    /\ arg = <<>> /\ ret = Pending

\* cell 37 run again after cell 41
Rerun37 ==
    /\ Running(44)
    /\ palette' = color_palette("RdBu_r")
    /\ UNCHANGED <<gss, polviews, year74, polviews74, polviews18, out, pmf74,
                   pmf18, gss_by_year, mean_series, xtab, xtab_norm, polviews7,
                   purple, color_map, figure, pc, err, small_n, arg, ret>>

\* cell 39 run again after cell 41
Rerun39 ==
    /\ Running(44)
    /\ palette' = [palette EXCEPT ![3 + 1] = purple]
    /\ UNCHANGED <<gss, polviews, year74, polviews74, polviews18, out, pmf74,
                   pmf18, gss_by_year, mean_series, xtab, xtab_norm, polviews7,
                   purple, color_map, figure, pc, err, small_n, arg, ret>>

\* plot_columns_lowess(xtab_norm, cols, colors) called after cell 41
CallPlotColumns ==
    /\ Running(44)
    /\ ret = Pending
    /\ \E cols \in ColumnArgs, colors \in ColorArgs :
          /\ arg' = [columns |-> cols, colors |-> colors]
          /\ ret' = plot_columns_lowess(<<>>, xtab_norm, cols, colors)
    /\ figure' = ret'.val
    /\ UNCHANGED <<gss, polviews, year74, polviews74, polviews18, out, pmf74,
                   pmf18, gss_by_year, mean_series, xtab, xtab_norm, polviews7,
                   palette, purple, color_map, pc, err, small_n>>

NextPlot ==
    \/ Cell6 \/ Cell7 \/ Cell8 \/ Cell10 \/ Cell11 \/ Cell13 \/ Cell14
    \/ Cell19 \/ Cell22 \/ Cell27 \/ Cell29 \/ Cell31 \/ Cell34 \/ Cell35
    \/ Cell36 \/ Cell37 \/ Cell38 \/ Cell39 \/ Cell41
    \/ Rerun37 \/ Rerun39 \/ CallPlotColumns

SpecPlot == InitPlot /\ [][NextPlot]_vars

(* ------------------------------ claims --------------------------------- *)
\* 0 <= f <= 1 for a float f
InUnit(f) == isfinite(f) /\ 0 <= f[1] /\ f[1] <= f[2]
\* the entries of a series stand in strictly ascending order of the index
Ascending(s) == \A i \in 1..(Len(s) - 1) : KeyLess(s[i][1], s[i + 1][1])
\* the number of entries of the series whose value is v
Occurrences(series, v) == Cardinality({i \in 1..Len(series) : series[i][2] = v})
\* the number of entries of the series that are not missing
Present(series) == Cardinality({i \in 1..Len(series) : ~isna(series[i][2])})

\* the fractions of pmf lie in [0,1] and sum to 1
SumsToOne(pmf) ==
    /\ \A i \in 1..Len(pmf) : InUnit(pmf[i][2])
    /\ FSum(Data(pmf)) = One

\* C1 as stated: for every non-empty input the fractions of the Pmf lie in
\* [0,1] and sum to 1, the counts summing to the length of the input.
C1_Original ==
    /\ pc > 13 /\ polviews74 # <<>> =>
          /\ SumsToOne(pmf74)
          /\ SumSeq(Data(values(polviews74))) = Len(polviews74)
    /\ pc > 14 /\ polviews18 # <<>> =>
          /\ SumsToOne(pmf18)
          /\ SumSeq(Data(values(polviews18))) = Len(polviews18)

\* C1 amended: for every input with at least one response that is not
\* missing, the fractions of Pmf.from_seq lie in [0,1] and sum to exactly 1,
\* and the counts sum to the number of responses that are not missing.
C1_PmfSumsToOne ==
    /\ pc > 13 /\ Present(polviews74) > 0 =>
          /\ SumsToOne(pmf74)
          /\ SumSeq(Data(values(polviews74))) = Present(polviews74)
    /\ pc > 14 /\ Present(polviews18) > 0 =>
          /\ SumsToOne(pmf18)
          /\ SumSeq(Data(values(polviews18))) = Present(polviews18)

\* a Pmf of two values was built from responses of which one is missing
C1_Witness ==
    /\ pc > 13
    /\ Len(pmf74) >= 2
    /\ Present(polviews74) < Len(polviews74)

\* the 1974 subset [1,2,2,4] of the scenario, as a Series
Scenario1974 == [i \in 1..4 |-> <<Num(i - 1), Num(<<1, 2, 2, 4>>[i])>>]

ScenarioPmf == Pmf_from_seq(Scenario1974)

\* C2 as stated: the keys are the distinct values of the input in ascending
\* order and the entry of v is (occurrences of v) / (length of the input).
C2_Original ==
    pc > 13 =>
       /\ Keys(pmf74) = Range(Data(polviews74))
       /\ Ascending(pmf74)
       /\ \A k \in Keys(pmf74) :
             Get(pmf74, k) = Div(Occurrences(polviews74, k), Len(polviews74))

\* the keys and entries of values(series) and of Pmf.from_seq(series)
KeysAndEntries(series, counts, pmf) ==
    /\ Keys(pmf) = Range(Data(series)) \ {NaN}
    /\ Keys(counts) = Keys(pmf)
    /\ Len(pmf) = Cardinality(Keys(pmf))
    /\ Len(counts) = Cardinality(Keys(counts))
    /\ Ascending(pmf)
    /\ Ascending(counts)
    /\ \A k \in Keys(pmf) :
          /\ Get(counts, k) = Occurrences(series, k)
          /\ Get(pmf, k) = Div(Occurrences(series, k), Present(series))

\* C2 amended: the keys of Pmf.from_seq and of values(series) are exactly
\* the distinct values of the input that are not missing, in ascending order
\* of the value, values(series) maps v to the number of occurrences of v and
\* the Pmf maps v to that number divided by the number of entries that are
\* not missing; [1,2,2,4] yields {1: 1/4, 2: 1/2, 4: 1/4}.
C2_KeysSortedFractions ==
    /\ pc > 13 => KeysAndEntries(polviews74, values(polviews74), pmf74)
    /\ pc > 14 => KeysAndEntries(polviews18, values(polviews18), pmf18)
    /\ pc = 11 => out = values(polviews74)
    /\ ScenarioPmf =
          << <<Num(1), <<1, 4>>>>, <<Num(2), <<1, 2>>>>, <<Num(4), <<1, 4>>>> >>

\* the most frequent response of 1974 is not the smallest one
C2_Witness ==
    /\ pc > 13
    /\ Len(pmf74) >= 2
    /\ \E k \in Keys(pmf74) :
          Occurrences(polviews74, k) > Occurrences(polviews74, pmf74[1][1])

\* the rows of the table of year r whose response is not missing
Answered(r) ==
    {n \in 1..Len(gss) : gss[n].year = r /\ ~isna(gss[n].polviews)}
\* those of them whose response is the category c, a code or its label
Gave(r, c) ==
    {n \in Answered(r) : gss[n].polviews = c \/ d7[gss[n].polviews] = c}

\* every row of the normalized matrix sums to 1 and its cells are the counts
\* of the year divided by the total of the year
RowsSumToOne(table) ==
    \A i \in 1..Len(table.index) :
       /\ FSum(table.data[i]) = One
       /\ \A j \in 1..Len(table.columns) :
             table.data[i][j] =
                Div(Cardinality(Gave(table.index[i], table.columns[j])),
                    Cardinality(Answered(table.index[i])))

\* C3: in every row of the normalized cross tabulation the cells sum to
\* exactly 1, each cell being the count of the year's responses in the
\* category divided by the total count of the row.
C3_RowsSumToOne ==
    /\ pc > 31 => RowsSumToOne(xtab_norm)
    /\ pc \in 32..36 =>
          \A i \in 1..Len(xtab.index) : \A j \in 1..Len(xtab.columns) :
             xtab_norm.data[i][j] = Div(xtab.data[i][j], SumSeq(xtab.data[i]))

\* the matrix has two rows of different totals, one with two cells above 0
C3_Witness ==
    /\ pc > 31
    /\ Len(xtab_norm.index) >= 2
    /\ Cardinality(Answered(Num(1974))) # Cardinality(Answered(Num(2018)))
    /\ \E i \in 1..Len(xtab_norm.index) :
          Cardinality({j \in 1..Len(xtab_norm.columns) :
                          xtab_norm.data[i][j] # Zero}) >= 2

\* C4 as stated: for every year row and every category of the category set
\* the cell exists, so table[col] yields one value per year row.
C4_Original ==
    pc > 36 =>
       \A c \in Range(columns) :
          /\ getitem(xtab_norm, Str(c)).err = "none"
          /\ Len(getitem(xtab_norm, Str(c)).val) = Len(xtab_norm.index)

\* C4 amended: for every year row and every category that some respondent
\* gave in at least one year the cell exists, with value 0.0 when no
\* respondent gave the category in that year, so table[col] yields one value
\* per year row; a category that no respondent gave in any year has no
\* column, and table[col] raises KeyError for it.
C4_AbsentIsZero ==
    pc > 36 =>
       \A c \in Range(columns) :
          LET given == \E n \in 1..Len(gss) : gss[n].polviews \in DOMAIN d7
                                              /\ d7[gss[n].polviews] = Str(c)
              series == getitem(xtab_norm, Str(c))
          IN IF given
             THEN /\ series.err = "none"
                  /\ Len(series.val) = Len(xtab_norm.index)
                  /\ \A i \in 1..Len(series.val) :
                        Gave(series.val[i][1], Str(c)) = {}
                           <=> series.val[i][2] = Zero
             ELSE series.err = "KeyError"

\* a category given in one year has a cell 0.0 in the row of another year
C4_Witness ==
    /\ pc > 36
    /\ \E c \in Range(columns) :
          /\ getitem(xtab_norm, Str(c)).err = "none"
          /\ \E i, j \in 1..Len(xtab_norm.index) :
                /\ getitem(xtab_norm, Str(c)).val[i][2] = Zero
                /\ getitem(xtab_norm, Str(c)).val[j][2] # Zero

\* the distinct years of the table
YearsPresent == {gss[n].year : n \in 1..Len(gss)}

\* C5: the mean-by-year series has exactly one point per distinct year of
\* the input, in ascending order of the year, and no point for a year that
\* is not in the data.
C5_OnePointPerYear ==
    pc > 22 =>
       /\ Len(mean_series) = Cardinality(YearsPresent)
       /\ Keys(mean_series) = YearsPresent
       /\ Ascending(mean_series)

\* the table lacks a year a row can carry, and its rows are not in the order
\* of their years
C5_Witness ==
    /\ pc > 22
    /\ Len(mean_series) = 2
    /\ Num(2018) \notin YearsPresent
    /\ KeyLess(gss[Len(gss)].year, gss[1].year)

\* the sum of the codes of the rows in ns
RECURSIVE CodeSum(_)
CodeSum(ns) ==
    IF ns = {} THEN 0
    ELSE LET n == CHOOSE n \in ns : TRUE
         IN gss[n].polviews.int + CodeSum(ns \ {n})

\* the table of the scenario {1974: [4,4,4,6], 1990: [2,2,4,4]}, the rows of
\* the two years interleaved
ScenarioTable ==
    [i \in 1..8 |->
        [year |-> Num(IF i % 2 = 1 THEN 1974 ELSE 1990),
         polviews |-> Num(<<4, 2, 4, 2, 4, 4, 6, 4>>[i])]]

ScenarioMeans ==
    groupby_mean(groupby_year(ScenarioTable), ScenarioTable, "polviews")

\* C6: the value of the mean-by-year series at a year is the sum divided by
\* the count of the numeric responses of the rows of exactly that year (nan
\* when the year has none); the scenario yields 4.5 for 1974, 3.0 for 1990.
C6_MeanOfThatYear ==
    /\ pc > 22 =>
          \A y \in Keys(mean_series) :
             Get(mean_series, y) =
                Div(CodeSum(Answered(y)), Cardinality(Answered(y)))
    /\ ScenarioMeans = << <<Num(1974), <<9, 2>>>>, <<Num(1990), <<3, 1>>>> >>

\* two years with different means, one of them with a missing response
C6_Witness ==
    /\ pc > 22
    /\ Len(mean_series) = 2
    /\ isfinite(mean_series[1][2]) /\ isfinite(mean_series[2][2])
    /\ mean_series[1][2] # mean_series[2][2]
    /\ \E n \in 1..Len(gss) : isna(gss[n].polviews)

\* the points of a series stand in ascending order of x, equal x allowed
SortedByX(s) == \A i \in 1..(Len(s) - 1) : ~KeyLess(s[i + 1][1], s[i][1])
\* the points of the argument whose value is defined
Defined == {i \in 1..Len(arg) : isfinite(arg[i][2])}
Returned == ret.err = "none"

\* C7: whatever the order of the x values of its input, and with duplicated
\* x values, the series make_lowess returns is sorted ascending by x.
C7_SortedByX == Returned => SortedByX(ret.val)

\* the input had a duplicated x and a descent, and three points came back
C7_Witness ==
    /\ Returned
    /\ Len(ret.val) = 3
    /\ \E i, j \in 1..Len(arg) : i < j /\ KeyLess(arg[j][1], arg[i][1])
    /\ \E i, j \in 1..Len(arg) : i # j /\ arg[i][1] = arg[j][1]

\* C8 as stated: the output has the x positions of the input, one output
\* point per input point, also when a value of the input is undefined.
C8_Original ==
    Returned => /\ Keys(ret.val) = Keys(arg)
                /\ Len(ret.val) = Len(arg)

\* C8 amended: the set of x positions of the series make_lowess returns is
\* the set of x positions of the input points whose value is defined, with
\* one output point per such input point; a point whose value is undefined
\* has no output point.
C8_DomainOfDefined ==
    Returned =>
       /\ Keys(ret.val) = {arg[i][1] : i \in Defined}
       /\ Len(ret.val) = Cardinality(Defined)
       /\ \A x \in Keys(ret.val) :
             Cardinality({i \in 1..Len(ret.val) : ret.val[i][1] = x}) =
             Cardinality({i \in Defined : arg[i][1] = x})

\* a series with an undefined value was smoothed to two points
C8_Witness ==
    /\ Returned
    /\ Len(ret.val) = 2
    /\ Cardinality(Defined) < Len(arg)

\* C9 as stated: the Pmf of an empty input is the error EmptyInputError.
C9_Original ==
    pc > 13 /\ polviews74 = <<>> => err = "EmptyInputError"

\* C9 amended: Pmf.from_seq of an empty input, and of an input whose values
\* are all missing, raises no error: it returns the empty mapping, whose
\* fractions sum to 0, and the run goes on with the next cell.
C9_EmptyPmf ==
    /\ pc > 13 /\ Present(polviews74) = 0 =>
          pmf74 = <<>> /\ FSum(Data(pmf74)) = Zero
    /\ pc > 14 /\ Present(polviews18) = 0 =>
          pmf18 = <<>> /\ FSum(Data(pmf18)) = Zero
    /\ pc \in 13..19 => err = "none"

\* the Pmf of an empty input and the Pmf of missing values only were built
C9_Witness ==
    /\ pc > 14
    /\ polviews74 = <<>>
    /\ polviews18 # <<>> /\ Present(polviews18) = 0

\* C10 as stated: make_lowess of a series with fewer than 2 distinct x
\* values fails with InsufficientDataError.
C10_Original ==
    ret # Pending /\ Cardinality(Keys(arg)) < 2 =>
       ret.err = "InsufficientDataError"

\* C10 amended: make_lowess makes no check of its own: a series with fewer
\* than 2 distinct x values, e.g. the single point (2000, 5), is handed to
\* lowess, and the call never fails with InsufficientDataError; it returns a
\* series with one point per input point whose value is defined, or fails
\* with the error lowess itself raises.
C10_NoCheck ==
    ret # Pending /\ Cardinality(Keys(arg)) < 2 =>
       /\ ret.err \in {"none", "ValueError"}
       /\ ret.err = "ValueError" => small_n = "raises"
       /\ ret.err = "none" => Len(ret.val) = Cardinality(Defined)

\* make_lowess returned a series for the single point (2000, 5)
C10_Witness ==
    /\ arg = << <<Num(2000), Div(5, 1)>> >>
    /\ Returned
    /\ Len(ret.val) = 1

\* the list of categories the plotting cell at pc hands to
\* plot_columns_lowess
Requested == IF pc = 44 THEN columns ELSE columns2
\* the plotting cell at pc was stopped by an exception
PlotFailed == pc \in {44, 45} /\ err # "none"
\* the category has a column in the matrix
InTable(c) == Str(c) \in Range(xtab_norm.columns)
\* the figure holds the points of the category
Drawn(c) ==
    \E i \in 1..Len(figure) :
       /\ figure[i].marker = "o"
       /\ figure[i].series = getitem(xtab_norm, Str(c)).val
       /\ figure[i].color = color_map[c]
\* the number of smooth lines of the figure
Lines == Cardinality({i \in 1..Len(figure) : figure[i].marker = ""})

\* C11 as stated: when the computation for one category of the list fails,
\* the remaining categories of the list are still processed.
C11_Original ==
    PlotFailed =>
       \A k \in 1..Len(Requested) : InTable(Requested[k]) => Drawn(Requested[k])

\* C11 amended: an error raised while one category is plotted is not local:
\* plot_columns_lowess has no handler, the exception leaves its loop and
\* stops the cell.  The categories before the failing one are drawn, each
\* with its points and its line; of the failing one at most the points are
\* drawn, and no category after it is processed.  The cell is passed only
\* when no category of its list failed.
C11_FirstErrorStopsLoop ==
    /\ PlotFailed =>
          /\ Lines < Len(Requested)
          /\ Len(figure) \in {2 * Lines, 2 * Lines + 1}
          /\ \A k \in 1..Lines : Drawn(Requested[k])
          /\ \A k \in (Lines + 2)..Len(Requested) : ~Drawn(Requested[k])
          /\ err = "KeyError" <=> ~InTable(Requested[Lines + 1])
          /\ err = "KeyError" <=> Len(figure) = 2 * Lines
    /\ pc > 44 => /\ \A k \in 1..Len(columns) : InTable(columns[k])
                  /\ pc = 45 /\ err = "none" => Len(figure) = 2 * Len(columns)

\* the loop drew a category, failed at the next, and left a later category
\* of the matrix undrawn
C11_Witness ==
    /\ PlotFailed
    /\ Lines >= 1
    /\ \E k \in (Lines + 2)..Len(Requested) :
          InTable(Requested[k]) /\ ~Drawn(Requested[k])

\* a direct call of plot_columns_lowess has ended
Called == pc = 44 /\ ret # Pending
\* the k-th category of the call has no column in the matrix
NoColumn(k) == Str(arg.columns[k]) \notin Range(xtab_norm.columns)
\* the k-th category of the call has a column but no color
NoColor(k) == ~NoColumn(k) /\ arg.columns[k] \notin DOMAIN arg.colors
\* the k-th category is the first of the call that cannot be looked up
FirstBad(k) ==
    /\ NoColumn(k) \/ NoColor(k)
    /\ \A j \in 1..(k - 1) : ~NoColumn(j) /\ ~NoColor(j)

\* C12 as stated: the lists of both calls of the notebook are keys of
\* color_map, and a request for a category with no assigned color is
\* reported as UnmappedCategoryError.
C12_Original ==
    /\ pc >= 44 => Range(columns) \cup Range(columns2) \subseteq DOMAIN color_map
    /\ Called =>
          \A k \in 1..Len(arg.columns) :
             FirstBad(k) /\ NoColor(k) /\ ret.err # "ValueError"
                => ret.err = "UnmappedCategoryError"

\* C12 amended: both calls made by the notebook (with columns and with
\* columns2) request only categories that are keys of color_map, so every
\* category they request has a resolvable color; a request for a category
\* with no assigned color is not reported as UnmappedCategoryError: the
\* lookup colors[col] raises KeyError, which stops the loop after the
\* categories before it have been drawn.
C12_UnmappedIsKeyError ==
    /\ pc >= 44 => Range(columns) \cup Range(columns2) \subseteq DOMAIN color_map
    /\ Called =>
          /\ ret.err \in {"none", "KeyError", "ValueError"}
          /\ \A k \in 1..Len(arg.columns) :
                FirstBad(k) /\ ret.err # "ValueError"
                   => ret.err = "KeyError" /\ Len(ret.val) = 2 * (k - 1)
          /\ (\A k \in 1..Len(arg.columns) : ~NoColumn(k) /\ ~NoColor(k))
                => ret.err # "KeyError"
          /\ arg.columns \in {columns, columns2} /\ arg.colors = color_map
                => ret.err # "KeyError"

\* a call drew a category and stopped at the next, which has a column in
\* the matrix but no color
C12_Witness ==
    /\ Called
    /\ ret.err = "KeyError"
    /\ Len(ret.val) = 2
    /\ NoColor(2)

\* the place of a category, a code or its label, in the declared order
CanonRank(c) == CHOOSE k \in 1..7 : c = Num(k) \/ c = d7[Num(k)]
\* the rows of the matrix stand in ascending order of the year
RowsByYear(table) ==
    \A i, j \in 1..Len(table.index) :
       i < j => table.index[i].int < table.index[j].int
\* the columns of the matrix stand in the declared order of the categories
ColumnsCanonical(table) ==
    \A i, j \in 1..Len(table.columns) :
       i < j => CanonRank(table.columns[i]) < CanonRank(table.columns[j])
\* the columns of the labelled matrix stand in the order of their strings
ColumnsByString(table) ==
    \A i, j \in 1..Len(table.columns) :
       i < j => \E a, b \in 1..Len(StrOrder) :
                   /\ a < b
                   /\ table.columns[i] = Str(StrOrder[a])
                   /\ table.columns[j] = Str(StrOrder[b])

\* C13 as stated: rows ascending by year and categories in the declared
\* order 1 to 7, for the matrix of the codes and for that of the labels.
C13_Original ==
    pc > 31 => RowsByYear(xtab_norm) /\ ColumnsCanonical(xtab_norm)

\* C13 amended: in the cross-tabulation matrix the rows are ordered by
\* ascending year; the categories of the matrix computed from the numeric
\* codes are ordered by code, 1 to 7; the categories of the matrix computed
\* from the recoded string labels are ordered by the ascending order of the
\* label strings (Conservative, Extremely conservative, Extremely liberal,
\* Liberal, Moderate, Slightly conservative, Slightly liberal), which is
\* neither the declared order nor the order of frequency.
C13_RowsByYearColumnsSorted ==
    /\ pc > 29 => RowsByYear(xtab) /\ ColumnsCanonical(xtab)
    /\ pc \in 32..36 => RowsByYear(xtab_norm) /\ ColumnsCanonical(xtab_norm)
    /\ pc > 36 =>
          /\ RowsByYear(xtab_norm)
          /\ ColumnsByString(xtab_norm)
          /\ Len(xtab_norm.columns) = 7 =>
                xtab_norm.columns = [i \in 1..7 |-> Str(StrOrder[i])]

\* the labelled matrix has all seven categories and two years, the rows of
\* the later year standing first in the table
C13_Witness ==
    /\ pc > 36
    /\ Len(xtab_norm.columns) = 7
    /\ Len(xtab_norm.index) = 2
    /\ gss[Len(gss)].year.int < gss[1].year.int
    /\ ~ColumnsCanonical(xtab_norm)

\* the loaded table and the entities derived from it, by name
Entities ==
    [gss |-> gss, polviews |-> polviews, year74 |-> year74,
     polviews74 |-> polviews74, polviews18 |-> polviews18, pmf74 |-> pmf74,
     pmf18 |-> pmf18, gss_by_year |-> gss_by_year,
     mean_series |-> mean_series, xtab |-> xtab, xtab_norm |-> xtab_norm,
     polviews7 |-> polviews7, palette |-> palette, purple |-> purple,
     color_map |-> color_map]
\* the names the cell binds to a value it has made
Binds(cell) ==
    CASE cell = 6 -> {"polviews"}
      [] cell = 7 -> {"year74"}
      [] cell = 8 -> {"polviews74"}
      [] cell = 11 -> {"polviews18"}
      [] cell = 13 -> {"pmf74"}
      [] cell = 14 -> {"pmf18"}
      [] cell = 19 -> {"gss_by_year"}
      [] cell \in {22, 27} -> {"mean_series"}
      [] cell = 29 -> {"xtab"}
      [] cell \in {31, 36} -> {"xtab_norm"}
      [] cell = 34 -> {"polviews7"}
      [] cell = 37 -> {"palette"}
      [] cell = 38 -> {"purple"}
      [] cell = 41 -> {"color_map"}
      [] OTHER -> {}
\* a step leaves alone every entity outside names
Untouched(names) ==
    \A n \in DOMAIN Entities \ names : Entities'[n] = Entities[n]

\* C14 as stated: no step changes the loaded table or a derived entity; a
\* cell at most binds a name to a value it has made.
C14_Original == [][Untouched(Binds(pc))]_vars

\* C14 amended: no step of the pipeline changes the loaded dataset, and no
\* step changes a derived entity other than by binding its name to a newly
\* made value, with one exception: cell 39 (palette[3] = purple) updates
\* the existing palette in place, replacing its element 3 and keeping the
\* other six.
C14_OnlyPaletteInPlace ==
    [][/\ gss' = gss
       /\ Untouched(Binds(pc) \cup (IF pc = 39 THEN {"palette"} ELSE {}))
       /\ pc = 39 => /\ palette' = [palette EXCEPT ![4] = purple]
                     /\ palette' # palette]_vars

\* every cell has run and the palette carries the replaced element
C14_Witness ==
    /\ pc = 46
    /\ palette # color_palette("RdBu_r")
    /\ \A i \in {1, 2, 3, 5, 6, 7} : palette[i] = color_palette("RdBu_r")[i]

\* the keys of pmf are the non-missing values of the series, each with the
\* fraction of the non-missing entries that carry it
FractionOfPresent(series, pmf) ==
    /\ Keys(pmf) = {series[i][2] : i \in 1..Len(series)} \ {NaN}
    /\ \A i \in 1..Len(pmf) :
          pmf[i][2] = Div(Occurrences(series, pmf[i][1]), Present(series))
\* the years with at least one non-missing response
YearsAnswered == {y \in YearsPresent : Answered(y) # {}}
\* the rows of the table are the years with a non-missing response, each
\* cell the fraction of the year's non-missing responses in the category
RowsOfAnswered(table) ==
    /\ Range(table.index) = YearsAnswered
    /\ \A i \in 1..Len(table.index) : \A j \in 1..Len(table.columns) :
          table.data[i][j] =
             Div(Cardinality(Gave(table.index[i], table.columns[j])),
                 Cardinality(Answered(table.index[i])))

LabelsInOrder ==
    /\ DOMAIN d7 = {Num(k) : k \in 1..7}
    /\ Len(columns) = 7
    /\ \A k \in 1..7 : d7[Num(k)] = Str(columns[k])
\* the color at position i (from 0) of the palette as cell 41 found it
BuiltFrom(i) == IF i = 3 THEN <<"muted", 4>> ELSE <<"RdBu_r", i>>

\* C16: d7, columns and color_map are consistent: the labels of the codes
\* 1..7 are the entries of columns in order, the keys of color_map are these
\* seven labels, the label of code k has the color at position k-1 of the
\* palette as it was when color_map was built, so 'Moderate' has the purple
\* of the muted palette and not the midpoint of RdBu_r; whatever is done to
\* palette afterwards, color_map stays as built.
C16_ColorMapConsistent ==
    /\ LabelsInOrder
    /\ pc > 41 =>
          /\ DOMAIN color_map = Range(columns)
          /\ Cardinality(DOMAIN color_map) = 7
          /\ \A k \in 1..7 : color_map[d7[Num(k)].str] = BuiltFrom(k - 1)
          /\ color_map["Moderate"] = purple
          /\ color_map["Moderate"] # color_palette("RdBu_r")[3 + 1]

\* the palette was made anew after color_map was built: its midpoint is the
\* original one again while 'Moderate' keeps the purple
C16_Witness ==
    /\ pc = 44
    /\ palette = color_palette("RdBu_r")
    /\ palette[3 + 1] # color_map["Moderate"]
    /\ color_map["Moderate"] = <<"muted", 4>>

====
